---- MODULE Spec2Model ----
(***************************************************************************)
(* Fractal-flame renderer: the pixel accumulator (pixel.py), the shared    *)
(* image buffer with its lock (fractal_image.py), the chaos-game sampling  *)
(* engine and the thread-pool driver (main.py).                            *)
(*                                                                         *)
(* World coordinates are held in half units: the integer k stands for the  *)
(* float k/2, so the world rectangle Rect(-1.5, -1.5, 3, 3) is the record  *)
(* (-3, -3, 6, 6).  The start points and transformations of the model are  *)
(* those on which the source's float arithmetic is exact.  mix_color is    *)
(* split into the loads and stores of its four assignments, so that the    *)
(* interleavings the lock excludes are visible to the model.               *)
(***************************************************************************)
EXTENDS Integers, Sequences, FiniteSets, TLC

\* ------------------------------------------------------------------ bounds
Width == 2
Height == 1
MaxWork == 3
MaxThreads == 2
MaxCalls == 4
ArgMargin == 1
MaxErrors == 2
FrameCalls == 2

\* ------------------------------------------------------- program constants
ColorScale == 255

World == [x |-> -3, y |-> -3, width |-> 6, height |-> 6]

\* the members of the catalog whose results on the model's points are exact
TRANSFORMATIONS == {"spherical", "linear"}

\* ------------------------------------------------------------------- state
VARIABLES
    cfg,       \* the validated configuration returned by user_input
    data,      \* FractalImage.data: data[y][x] is a Pixel
    lock,      \* FractalImage.lock: 0 when free, else the holder
    th,        \* one activation of generate_fractal per worker
    mpc,       \* position of the main thread
    submitted, \* futures submitted so far by parallel_generate_fractal
    resIdx,    \* index of the future whose result() main waits for
    raster,    \* pixels copied so far by to_image
    toImageCalls, \* history: calls of to_image
    issued,    \* history: add_hit calls issued per in-bounds pixel
    steps,     \* history: (sample, iteration, symmetry copy) steps executed
    started,   \* history: samples begun by each worker
    io,        \* the console: calls of input() and error messages printed
    order      \* history: per pixel, the colours of the hits in mixing order

vars == <<cfg, data, lock, th, mpc, submitted, resIdx, raster,
          toImageCalls, issued, steps, started, io, order>>

Workers == 1..MaxThreads

\* ------------------------------------------------------------ pure helpers
\* Python int() of a quotient of integers: truncation toward zero.
TruncDiv(a, b) == IF a >= 0 THEN a \div b ELSE -((-a) \div b)

\* Python list indexing: a negative index counts from the end; -1 stands
\* for IndexError.
PyIndex(i, n) ==
    IF 0 <= i /\ i < n THEN i
    ELSE IF -n <= i /\ i < 0 THEN i + n
    ELSE -1

Pixel == [r |-> 0, g |-> 0, b |-> 0, hit_count |-> 0]

FractalImage(width, height) ==
    [y \in 0..(height - 1) |-> [x \in 0..(width - 1) |-> Pixel]]

\* variant: the lower bounds are not tested
contains_no_lower(x, y, width, height) == x < width /\ y < height

\* variant: the upper bounds are inclusive
contains_inclusive(x, y, width, height) ==
    0 <= x /\ x <= width /\ 0 <= y /\ y <= height

\* return 0 <= x < self.width and 0 <= y < self.height
contains(x, y, width, height) ==
    0 <= x /\ x < width /\ 0 <= y /\ y < height

\* variant: the old mean is weighted by hit_count + 1
mix_channel_stale(old, hit_count, c, weight) ==
    TruncDiv(old * (hit_count + 1) + c * weight, hit_count + weight)

\* variant: the mean is taken as if hit_count were already incremented
mix_channel_after_inc(old, hit_count, c, weight) ==
    TruncDiv(old * (hit_count + 1) + c * weight, hit_count + 1 + weight)

\* variant: the mean is rounded up
mix_channel_round_up(old, hit_count, c, weight) ==
    (old * hit_count + c * weight + hit_count + weight - 1)
        \div (hit_count + weight)

\* one channel of Pixel.mix_color:
\* int((old * hit_count + c * weight) / (hit_count + weight))
mix_channel(old, hit_count, c, weight) ==
    TruncDiv(old * hit_count + c * weight, hit_count + weight)

\* variant: a hit is counted twice
next_hit_count_double(hit_count) == hit_count + 2

\* self.hit_count += 1
next_hit_count(hit_count) == hit_count + 1

\* Pixel.mix_color run from start to end on a pixel
mix_color(pixel, color, weight) ==
    [r |-> mix_channel(pixel.r, pixel.hit_count, color[1], weight),
     g |-> mix_channel(pixel.g, pixel.hit_count, color[2], weight),
     b |-> mix_channel(pixel.b, pixel.hit_count, color[3], weight),
     hit_count |-> next_hit_count(pixel.hit_count)]

\* ---------------------------------------------------------- transformations
\* Point(x / r2, y / r2) with r2 = x ** 2 + y ** 2; in half units the
\* quotient (k / 2) / (r2 / 4) is 4 * k / r2 half units
spherical(p) ==
    LET r2 == p.x * p.x + p.y * p.y
    IN  IF r2 = 0 THEN [x |-> 0, y |-> 0]
        ELSE [x |-> (4 * p.x) \div r2, y |-> (4 * p.y) \div r2]

linear(p) == p

Apply(t, p) ==
    CASE t = "spherical" -> spherical(p)
      [] t = "linear" -> linear(p)

\* points whose spherical image is computed without rounding
SphericalExact(p) ==
    LET r2 == p.x * p.x + p.y * p.y
    IN  r2 = 0 \/ ((4 * p.x) % r2 = 0 /\ (4 * p.y) % r2 = 0)

\* values of the two calls of random.uniform, in half units
Starts == {[x |-> -1, y |-> 0], [x |-> 1, y |-> 0]}

\* a sample of the values random_point_in_rect can return
random_point_in_rect(rect) ==
    {p \in Starts :
        /\ rect.x <= p.x /\ p.x < rect.x + rect.width
        /\ rect.y <= p.y /\ p.y < rect.y + rect.height
        /\ SphericalExact(p)}

\* ------------------------------------------------ rotation in floats
\* A rotated coordinate is a float next to the half-unit grid: h half units
\* plus a residue of t units of 2^-63.
Near(h, t) == [h |-> h, t |-> t]

\* the distance of neighbouring floats around a / 2, in residue units:
\* 2^-53 = 1024 units in [0.5, 1), doubling with every binade
Ulp(a) ==
    IF a < 2 THEN 1024
    ELSE IF a < 4 THEN 2048
    ELSE IF a < 8 THEN 4096
    ELSE IF a < 16 THEN 8192
    ELSE 16384

IsPow2(a) == a \in {1, 2, 4, 8, 16}

Abs(a) == IF a < 0 THEN -a ELSE a

\* below a power of two the floats lie twice as dense
Spacing(v) ==
    LET toward == (v.t < 0 /\ v.h > 0) \/ (v.t > 0 /\ v.h < 0)
    IN  IF IsPow2(Abs(v.h)) /\ toward THEN Ulp(Abs(v.h)) \div 2
        ELSE Ulp(Abs(v.h))

\* the result of a float operation: the nearest float, ties to even.  Near
\* zero the residue is itself a float.
fl(v) ==
    IF v.h = 0 \/ v.t = 0 THEN v
    ELSE LET e == Spacing(v)
             q == v.t \div e
             r == v.t - q * e
             m == IF 2 * r < e THEN q
                  ELSE IF 2 * r > e THEN q + 1
                  ELSE IF q % 2 = 0 THEN q ELSE q + 1
         IN  Near(v.h, m * e)

\* theta = 2 * pi * s / symmetry, in quarter turns
theta(s, symmetry) == (4 * s) \div symmetry

\* math.cos and math.sin of theta in whole units and residue units of
\* 2^-62: cos(pi / 2) = 6.123233995736766e-17,
\* sin(pi) = 1.2246467991473532e-16, cos(3 * pi / 2) = -1.8369701987210297e-16
cos(t) ==
    CASE t = 0 -> Near(1, 0)
      [] t = 1 -> Near(0, 282)
      [] t = 2 -> Near(-1, 0)
      [] t = 3 -> Near(0, -847)

sin(t) ==
    CASE t = 0 -> Near(0, 0)
      [] t = 1 -> Near(1, 0)
      [] t = 2 -> Near(0, 565)
      [] t = 3 -> Near(-1, 0)

\* the product of the grid coordinate k / 2 with a cos or sin value
times(k, c) == Near(k * c.h, k * c.t)

minus(a, b) == fl(Near(a.h - b.h, a.t - b.t))

plus(a, b) == fl(Near(a.h + b.h, a.t + b.t))

\* the symmetries whose angles are quarter turns
QuarterSymmetries == {1, 2, 4}

\* Point(point.x * cos(theta) - point.y * sin(theta),
\*       point.x * sin(theta) + point.y * cos(theta)):
\* x, y in half units and their residues rx, ry
rotated_point(p, s, symmetry) ==
    LET t == theta(s, symmetry)
        x == minus(times(p.x, cos(t)), times(p.y, sin(t)))
        y == plus(times(p.x, sin(t)), times(p.y, cos(t)))
    IN  [x |-> x.h, y |-> y.h, rx |-> x.t, ry |-> y.t]

\* the residue of a coordinate; a point on the grid has none
Residue(p, f) == IF f \in DOMAIN p THEN p[f] ELSE 0

None == <<>>

\* an image size for which v / rect.width * size keeps the residue of v:
\* for a multiple of 3 the division by 3.0 and the product can round it away
ResidueKept(size) == size % 3 # 0

\* int(v / extent * size): the quotient of v.h * size by extent, truncated
\* toward zero; a residue decides when the quotient is a whole number
int_scaled(v, extent, size) ==
    LET a == v.h * size
        q == a \div extent
    IN  IF a % extent = 0 /\ v.t # 0
        THEN IF v.t < 0 /\ q > 0 THEN q - 1
             ELSE IF v.t > 0 /\ q < 0 THEN q + 1
             ELSE q
        ELSE TruncDiv(a, extent)

\* x = int((point.x - rect.x) / rect.width * image.width), y likewise;
\* the pixel if image.contains(x, y), else None
map_to_pixel(rect, p, width, height) ==
    LET x == int_scaled(fl(Near(p.x - rect.x, Residue(p, "rx"))),
                        rect.width, width)
        y == int_scaled(fl(Near(p.y - rect.y, Residue(p, "ry"))),
                        rect.height, height)
    IN  IF contains(x, y, width, height) THEN <<x, y>> ELSE None

\* values of three successive calls of random.random(), in quarters
Draws == {<<2, 1, 3>>, <<0, 0, 0>>}

\* int(255 * random.random()) for random.random() = k / 4
random_channel(k) == TruncDiv(ColorScale * k, 4)

\* the three independent draws of one colour
random_color ==
    {<<random_channel(d[1]), random_channel(d[2]), random_channel(d[3])>> :
        d \in Draws}

\* variant: the chunk size is rounded up
samples_per_thread_ceil(samples, num_threads) ==
    (samples + num_threads - 1) \div num_threads

\* samples_per_thread = samples // num_threads
samples_per_thread(samples, num_threads) == samples \div num_threads

\* ----------------------------------------------------------- configuration
Selections == SUBSET TRANSFORMATIONS \ {{}}

\* what user_input can return; main runs the engine with symmetry = 1
Configs ==
    {c \in [width : {Width}, height : {Height},
            samples : 1..MaxWork, iter_per_sample : 1..MaxWork,
            transformations : Selections, use_multithreading : BOOLEAN,
            num_threads : 1..MaxThreads, symmetry : {1}] :
        /\ c.samples * c.iter_per_sample <= MaxWork
        /\ (~c.use_multithreading) => c.num_threads = 1}

Idle ==
    [pc |-> "idle", samples |-> 0, iters |-> 0, s |-> 0,
     point |-> [x |-> 0, y |-> 0], hx |-> 0, hy |-> 0,
     color |-> <<0, 0, 0>>, ref |-> <<0, 0>>, tmp |-> 0,
     exc |-> FALSE, ret |-> "idle", calls |-> 0, res |-> FALSE]

\* nothing read and nothing printed yet
Console == [prompts |-> 0, errors |-> 0, last |-> <<>>]

ZeroCounts(width, height) ==
    [y \in 0..(height - 1) |-> [x \in 0..(width - 1) |-> 0]]

NoHits(width, height) ==
    [y \in 0..(height - 1) |-> [x \in 0..(width - 1) |-> <<>>]]

Init ==
    /\ cfg \in Configs
    /\ data = FractalImage(cfg.width, cfg.height)
    /\ lock = 0
    /\ th = [w \in Workers |-> Idle]
    /\ mpc = "start"
    /\ submitted = 0
    /\ resIdx = 0
    /\ raster = <<>>
    /\ toImageCalls = 0
    /\ issued = ZeroCounts(cfg.width, cfg.height)
    /\ steps = 0
    /\ started = [w \in Workers |-> 0]
    /\ io = Console
    /\ order = NoHits(cfg.width, cfg.height)

\* ------------------------------------------------------- generate_fractal
Launch(w, samples) ==
    [th EXCEPT ![w] = [Idle EXCEPT !.pc = "sample", !.samples = samples]]

\* for _ in range(samples): point = random_point_in_rect(world)
NextSample(w) ==
    /\ th[w].pc = "sample"
    /\ IF th[w].samples > 0
       THEN /\ \E p \in random_point_in_rect(World) :
                 th' = [th EXCEPT ![w].point = p,
                                  ![w].samples = @ - 1,
                                  ![w].iters = cfg.iter_per_sample,
                                  ![w].pc = "iter"]
            /\ started' = [started EXCEPT ![w] = @ + 1]
       ELSE /\ th' = [th EXCEPT ![w].pc = "done"]
            /\ started' = started
    /\ UNCHANGED <<cfg, data, lock, mpc, submitted, resIdx, raster,
                   toImageCalls, issued, steps, io, order>>

\* variant: the symmetry loop runs only after the last iteration of a sample
Iterate_hit_last_only(w) ==
    /\ th[w].pc = "iter"
    /\ IF th[w].iters > 0
       THEN \E t \in cfg.transformations :
                 th' = [th EXCEPT ![w].point = Apply(t, th[w].point),
                                  ![w].iters = @ - 1,
                                  ![w].s = 0,
                                  ![w].pc = IF th[w].iters = 1 THEN "sym"
                                            ELSE "iter"]
       ELSE th' = [th EXCEPT ![w].pc = "sample"]
    /\ UNCHANGED <<cfg, data, lock, mpc, submitted, resIdx, raster,
                   toImageCalls, issued, steps, started, io, order>>

\* for _ in range(iter_per_sample): point = random.choice(...)(point)
Iterate(w) ==
    /\ th[w].pc = "iter"
    /\ IF th[w].iters > 0
       THEN \E t \in cfg.transformations :
                 th' = [th EXCEPT ![w].point = Apply(t, th[w].point),
                                  ![w].iters = @ - 1,
                                  ![w].s = 0,
                                  ![w].pc = "sym"]
       ELSE th' = [th EXCEPT ![w].pc = "sample"]
    /\ UNCHANGED <<cfg, data, lock, mpc, submitted, resIdx, raster,
                   toImageCalls, issued, steps, started, io, order>>

\* an unhandled exception in the worker's iteration: the OverflowError of a
\* transform (see spherical_raises), or resource exhaustion while the
\* transformed Point is built
Fault(w) ==
    /\ th[w].pc = "iter"
    /\ th[w].iters > 0
    /\ th' = [th EXCEPT ![w].pc = "raised"]
    /\ UNCHANGED <<cfg, data, lock, mpc, submitted, resIdx, raster,
                   toImageCalls, issued, steps, started, io, order>>

\* for s in range(symmetry): rotate, map_to_pixel, pick a colour, add_hit
SymmetryCopy(w) ==
    /\ th[w].pc = "sym"
    /\ IF th[w].s < cfg.symmetry
       THEN \E rp \in {rotated_point(th[w].point, th[w].s, cfg.symmetry)} :
            \E pixel_coords \in
                   {map_to_pixel(World, rp, cfg.width, cfg.height)} :
                /\ steps' = steps + 1
                /\ IF pixel_coords # None
                   THEN /\ \E color \in random_color :
                             th' = [th EXCEPT ![w].hx = pixel_coords[1],
                                              ![w].hy = pixel_coords[2],
                                              ![w].color = color,
                                              ![w].ret = "sym",
                                              ![w].pc = "lock"]
                        /\ issued' = [issued EXCEPT
                               ![pixel_coords[2]][pixel_coords[1]] = @ + 1]
                   ELSE /\ th' = [th EXCEPT ![w].s = @ + 1]
                        /\ issued' = issued
       ELSE /\ th' = [th EXCEPT ![w].pc = "iter"]
            /\ UNCHANGED <<steps, issued>>
    /\ UNCHANGED <<cfg, data, lock, mpc, submitted, resIdx, raster,
                   toImageCalls, started, io, order>>

\* ------------------------------------------------- FractalImage.add_hit
\* variant: acquire never blocks
lock_free_always == TRUE

\* threading.Lock: acquire blocks while the lock is held
lock_free == lock = 0

\* with self.lock:
Acquire(w) ==
    /\ th[w].pc = "lock"
    /\ lock_free
    /\ lock' = w
    /\ th' = [th EXCEPT ![w].pc = "contains"]
    /\ UNCHANGED <<cfg, data, mpc, submitted, resIdx, raster,
                   toImageCalls, issued, steps, started, io, order>>

\* the history keeps the hits that come from a worker's symmetry loop
Recorded(w) == th[w].ret = "sym"

\* if self.contains(x, y): self.data[y][x] ...
Contains(w) ==
    /\ th[w].pc = "contains"
    /\ IF contains(th[w].hx, th[w].hy, cfg.width, cfg.height)
       THEN LET row == PyIndex(th[w].hy, cfg.height)
                col == PyIndex(th[w].hx, cfg.width)
            IN  IF row = -1 \/ col = -1
                THEN /\ th' = [th EXCEPT ![w].exc = TRUE, ![w].pc = "unlock"]
                     /\ order' = order
                ELSE /\ th' = [th EXCEPT ![w].ref = <<row, col>>,
                                         ![w].pc = "mix_r"]
                     /\ order' = IF Recorded(w)
                                 THEN [order EXCEPT ![row][col] =
                                          Append(@, th[w].color)]
                                 ELSE order
       ELSE /\ th' = [th EXCEPT ![w].pc = "unlock"]
            /\ order' = order
    /\ UNCHANGED <<cfg, data, lock, mpc, submitted, resIdx, raster,
                   toImageCalls, issued, steps, started, io>>

Channel(pc) ==
    CASE pc \in {"mix_r", "store_r"} -> 1
      [] pc \in {"mix_g", "store_g"} -> 2
      [] pc \in {"mix_b", "store_b"} -> 3

ChannelOf(pixel, i) ==
    CASE i = 1 -> pixel.r [] i = 2 -> pixel.g [] i = 3 -> pixel.b

\* Pixel.mix_color: the right-hand side of one channel assignment
MixLoad(w) ==
    /\ th[w].pc \in {"mix_r", "mix_g", "mix_b"}
    /\ LET i == Channel(th[w].pc)
           pixel == data[th[w].ref[1]][th[w].ref[2]]
       IN  th' = [th EXCEPT
                    ![w].tmp = mix_channel(ChannelOf(pixel, i), pixel.hit_count,
                                           th[w].color[i], 1),
                    ![w].pc = CASE i = 1 -> "store_r" [] i = 2 -> "store_g"
                                [] i = 3 -> "store_b"]
    /\ UNCHANGED <<cfg, data, lock, mpc, submitted, resIdx, raster,
                   toImageCalls, issued, steps, started, io, order>>

\* variant: the pixels of a row are one shared Pixel, as [Pixel()] * width
\* would build them, so a store shows in every column
MixStore_shared_row(w) ==
    /\ th[w].pc \in {"store_r", "store_g", "store_b"}
    /\ LET i == Channel(th[w].pc)
           y == th[w].ref[1]
       IN  /\ data' = [data EXCEPT ![y] =
                  [x \in DOMAIN data[y] |->
                      CASE i = 1 -> [data[y][x] EXCEPT !.r = th[w].tmp]
                        [] i = 2 -> [data[y][x] EXCEPT !.g = th[w].tmp]
                        [] i = 3 -> [data[y][x] EXCEPT !.b = th[w].tmp]]]
           /\ th' = [th EXCEPT ![w].pc = CASE i = 1 -> "mix_g"
                                           [] i = 2 -> "mix_b"
                                           [] i = 3 -> "inc"]
    /\ UNCHANGED <<cfg, lock, mpc, submitted, resIdx, raster,
                   toImageCalls, issued, steps, started, io, order>>

\* Pixel.mix_color: the store of one channel assignment
MixStore(w) ==
    /\ th[w].pc \in {"store_r", "store_g", "store_b"}
    /\ LET i == Channel(th[w].pc)
           y == th[w].ref[1]
           x == th[w].ref[2]
       IN  /\ data' = CASE i = 1 -> [data EXCEPT ![y][x].r = th[w].tmp]
                        [] i = 2 -> [data EXCEPT ![y][x].g = th[w].tmp]
                        [] i = 3 -> [data EXCEPT ![y][x].b = th[w].tmp]
           /\ th' = [th EXCEPT ![w].pc = CASE i = 1 -> "mix_g"
                                           [] i = 2 -> "mix_b"
                                           [] i = 3 -> "inc"]
    /\ UNCHANGED <<cfg, lock, mpc, submitted, resIdx, raster,
                   toImageCalls, issued, steps, started, io, order>>

\* self.hit_count += 1: the load and the add
HitLoad(w) ==
    /\ th[w].pc = "inc"
    /\ th' = [th EXCEPT
                ![w].tmp = next_hit_count(
                               data[th[w].ref[1]][th[w].ref[2]].hit_count),
                ![w].pc = "store_hc"]
    /\ UNCHANGED <<cfg, data, lock, mpc, submitted, resIdx, raster,
                   toImageCalls, issued, steps, started, io, order>>

\* self.hit_count += 1: the store
HitStore(w) ==
    /\ th[w].pc = "store_hc"
    /\ data' = [data EXCEPT ![th[w].ref[1]][th[w].ref[2]].hit_count = th[w].tmp]
    /\ th' = [th EXCEPT ![w].pc = "unlock"]
    /\ UNCHANGED <<cfg, lock, mpc, submitted, resIdx, raster,
                   toImageCalls, issued, steps, started, io, order>>

\* the frame of add_hit is dropped when the call ends
Return(frame) ==
    [frame EXCEPT !.hx = 0, !.hy = 0, !.color = <<0, 0, 0>>,
                  !.ref = <<0, 0>>, !.tmp = 0, !.res = FALSE]

\* leaving the with block releases the lock, also when an exception passes;
\* add_hit then returns to its caller (the symmetry loop moves to s + 1)
Release(w) ==
    /\ th[w].pc = "unlock"
    /\ lock' = 0
    /\ th' = IF th[w].exc
             THEN [th EXCEPT ![w] = [Return(@) EXCEPT !.pc = "raised"]]
             ELSE IF th[w].ret = "sym"
                  THEN [th EXCEPT ![w] = [Return(@) EXCEPT !.pc = "sym",
                                                           !.s = @ + 1]]
                  ELSE [th EXCEPT ![w] = [Return(@) EXCEPT !.pc = th[w].ret]]
    /\ UNCHANGED <<cfg, data, mpc, submitted, resIdx, raster,
                   toImageCalls, issued, steps, started, io, order>>

\* ------------------------------------------- parallel_generate_fractal, main
Finished(w) == th[w].pc \in {"done", "raised"}

\* future.result() blocks until the future has a result or an exception
future_done(i) == Finished(i)

\* variant: the worker's exception is dropped
future_raised_swallowed(i) == FALSE

\* future.result() re-raises the exception of the worker's call
future_raised(i) == th[i].pc = "raised"

\* variant: shutdown does not wait
thread_joined_nowait(w) == TRUE

\* ThreadPoolExecutor.__exit__ is shutdown(wait=True): it joins the threads
thread_joined(w) == Finished(w)

\* main after user_input and FractalImage(width, height): the branch on
\* use_multithreading; the single-threaded call runs in the main thread
MainStart ==
    /\ mpc = "start"
    /\ IF cfg.use_multithreading
       THEN /\ mpc' = "submit"
            /\ th' = th
       ELSE /\ mpc' = "single"
            /\ th' = Launch(1, cfg.samples)
    /\ UNCHANGED <<cfg, data, lock, submitted, resIdx, raster,
                   toImageCalls, issued, steps, started, io, order>>

\* executor.submit(generate_fractal, ..., samples_per_thread, ...) for each
\* of range(num_threads), then the loop over the futures starts
Submit ==
    /\ mpc = "submit"
    /\ IF submitted < cfg.num_threads
       THEN /\ th' = Launch(submitted + 1,
                        samples_per_thread(cfg.samples, cfg.num_threads))
            /\ submitted' = submitted + 1
            /\ UNCHANGED <<mpc, resIdx>>
       ELSE /\ mpc' = "result"
            /\ resIdx' = 1
            /\ UNCHANGED <<th, submitted>>
    /\ UNCHANGED <<cfg, data, lock, raster, toImageCalls, issued, steps,
                   started, io, order>>

\* for future in futures: future.result()
Result ==
    /\ mpc = "result"
    /\ IF resIdx <= cfg.num_threads
       THEN /\ future_done(resIdx)
            /\ IF future_raised(resIdx)
               THEN mpc' = "exit_raise" /\ resIdx' = resIdx
               ELSE mpc' = mpc /\ resIdx' = resIdx + 1
       ELSE mpc' = "exit_ok" /\ resIdx' = resIdx
    /\ UNCHANGED <<cfg, data, lock, th, submitted, raster, toImageCalls,
                   issued, steps, started, io, order>>

\* leaving the with block of the executor, normally or with the exception
ExecutorExit ==
    /\ mpc \in {"exit_ok", "exit_raise"}
    /\ \A w \in 1..cfg.num_threads : thread_joined(w)
    /\ mpc' = IF mpc = "exit_ok" THEN "save" ELSE "aborted"
    /\ UNCHANGED <<cfg, data, lock, th, submitted, resIdx, raster,
                   toImageCalls, issued, steps, started, io, order>>

\* generate_fractal returns to main, or its exception ends main
SingleReturn ==
    /\ mpc = "single"
    /\ Finished(1)
    /\ mpc' = IF th[1].pc = "raised" THEN "aborted" ELSE "save"
    /\ UNCHANGED <<cfg, data, lock, th, submitted, resIdx, raster,
                   toImageCalls, issued, steps, started, io, order>>

\* save_image: img = image.to_image()
SaveImage ==
    /\ mpc = "save"
    /\ mpc' = "to_image"
    /\ toImageCalls' = toImageCalls + 1
    /\ raster' = <<>>
    /\ UNCHANGED <<cfg, data, lock, th, submitted, resIdx, issued, steps,
                   started, io, order>>

\* to_image: for y in range(height): for x in range(width): copy the pixel;
\* then img.save and the end of main
ToImage ==
    /\ mpc = "to_image"
    /\ IF Len(raster) < cfg.width * cfg.height
       THEN LET y == Len(raster) \div cfg.width
                x == Len(raster) % cfg.width
                pixel == data[y][x]
            IN  /\ raster' = Append(raster, <<pixel.r, pixel.g, pixel.b>>)
                /\ mpc' = mpc
       ELSE /\ mpc' = "done"
            /\ raster' = raster
    /\ UNCHANGED <<cfg, data, lock, th, submitted, resIdx, toImageCalls,
                   issued, steps, started, io, order>>

WorkerStep(w) ==
    \/ NextSample(w)
    \/ Iterate(w)
    \/ Fault(w)
    \/ SymmetryCopy(w)
    \/ Acquire(w)
    \/ Contains(w)
    \/ MixLoad(w)
    \/ MixStore(w)
    \/ HitLoad(w)
    \/ HitStore(w)
    \/ Release(w)

Next ==
    \/ MainStart
    \/ Submit
    \/ Result
    \/ ExecutorExit
    \/ SingleReturn
    \/ SaveImage
    \/ ToImage
    \/ \E w \in Workers : WorkerStep(w)

Spec == Init /\ [][Next]_vars

\* the steps of the main thread
MainStep ==
    \/ MainStart
    \/ Submit
    \/ Result
    \/ ExecutorExit
    \/ SingleReturn
    \/ SaveImage
    \/ ToImage

\* the scheduler lets every thread that can run take a step now and then
Fairness ==
    /\ WF_vars(MainStep)
    /\ \A w \in Workers : WF_vars(WorkerStep(w))

SpecFair == Spec /\ Fairness

\* --------------------------------- generate_fractal called with a symmetry
\* values of random_point_in_rect: (1.0, 0.0), (0.0, 1.0), (0.5, 0.5)
SymStarts == {[x |-> 2, y |-> 0], [x |-> 0, y |-> 2], [x |-> 1, y |-> 1]}

SymConfigs ==
    {c \in [width : {Width}, height : {Height}, samples : {1},
            iter_per_sample : 1..MaxWork, transformations : Selections,
            use_multithreading : {FALSE}, num_threads : {1},
            symmetry : QuarterSymmetries] :
        ResidueKept(c.width) /\ ResidueKept(c.height)}

\* generate_fractal(image, world, transformations, 1, iter_per_sample,
\* symmetry) on one thread, after point = random_point_in_rect(world)
InitSym ==
    /\ cfg \in SymConfigs
    /\ data = FractalImage(cfg.width, cfg.height)
    /\ lock = 0
    /\ \E p \in {q \in SymStarts : SphericalExact(q)} :
         th = [w \in Workers |->
                 IF w = 1
                 THEN [Idle EXCEPT !.pc = "iter", !.point = p,
                                   !.iters = cfg.iter_per_sample]
                 ELSE Idle]
    /\ mpc = "single"
    /\ submitted = 0
    /\ resIdx = 0
    /\ raster = <<>>
    /\ toImageCalls = 0
    /\ issued = ZeroCounts(cfg.width, cfg.height)
    /\ steps = 0
    /\ started = [w \in Workers |-> IF w = 1 THEN 1 ELSE 0]
    /\ io = Console
    /\ order = NoHits(cfg.width, cfg.height)

NextSym == WorkerStep(1)

SpecSym == InitSym /\ [][NextSym]_vars

\* ----------------------------- two workers with two iterations each
MixConfigs ==
    {c \in [width : {Width}, height : {Height}, samples : {2},
            iter_per_sample : {2}, transformations : {{"linear"}},
            use_multithreading : BOOLEAN, num_threads : {1, 2},
            symmetry : {1}] :
        c.use_multithreading <=> c.num_threads = 2}

\* main after user_input has returned one of MixConfigs
InitMix ==
    /\ cfg \in MixConfigs
    /\ data = FractalImage(cfg.width, cfg.height)
    /\ lock = 0
    /\ th = [w \in Workers |-> Idle]
    /\ mpc = "start"
    /\ submitted = 0
    /\ resIdx = 0
    /\ raster = <<>>
    /\ toImageCalls = 0
    /\ issued = ZeroCounts(cfg.width, cfg.height)
    /\ steps = 0
    /\ started = [w \in Workers |-> 0]
    /\ io = Console
    /\ order = NoHits(cfg.width, cfg.height)

SpecMix == InitMix /\ [][Next]_vars

\* ------------------------------------------------ direct use of FractalImage
\* A caller of add_hit and contains of a FractalImage, with arbitrary integer
\* arguments.
Clients == {1}

ApiConfigs ==
    {c \in Configs : /\ c.samples = 1 /\ c.iter_per_sample = 1
                     /\ c.transformations = {"linear"}
                     /\ ~c.use_multithreading}

RECURSIVE CallsMade(_)
\* calls made so far by the clients in S
CallsMade(S) ==
    IF S = {} THEN 0
    ELSE LET w == CHOOSE v \in S : TRUE
         IN  th[w].calls + CallsMade(S \ {w})

ArgsX == (-ArgMargin)..(cfg.width - 1 + ArgMargin)

ArgsY == (-ArgMargin)..(cfg.height - 1 + ArgMargin)

\* colours a caller of add_hit may pass: channels in [0, 255]
ApiColors == random_color \cup {<<ColorScale, ColorScale, ColorScale>>}

InitApi ==
    /\ cfg \in ApiConfigs
    /\ data = FractalImage(cfg.width, cfg.height)
    /\ lock = 0
    /\ th = [w \in Workers |->
               IF w \in Clients
               THEN [Idle EXCEPT !.pc = "api"]
               ELSE Idle]
    /\ mpc = "api"
    /\ submitted = 0
    /\ resIdx = 0
    /\ raster = <<>>
    /\ toImageCalls = 0
    /\ issued = ZeroCounts(cfg.width, cfg.height)
    /\ steps = 0
    /\ started = [w \in Workers |-> 0]
    /\ io = Console
    /\ order = NoHits(cfg.width, cfg.height)

\* a client calls image.add_hit(x, y, color)
ApiAddHit(w) ==
    /\ th[w].pc = "api"
    /\ CallsMade(Clients) < MaxCalls
    /\ \E x \in ArgsX, y \in ArgsY, color \in ApiColors :
         /\ th' = [th EXCEPT ![w].hx = x, ![w].hy = y, ![w].color = color,
                             ![w].ret = "api",
                             ![w].calls = @ + 1, ![w].pc = "lock"]
         /\ issued' = IF x \in 0..(cfg.width - 1) /\ y \in 0..(cfg.height - 1)
                      THEN [issued EXCEPT ![y][x] = @ + 1]
                      ELSE issued
    /\ UNCHANGED <<cfg, data, lock, mpc, submitted, resIdx, raster,
                   toImageCalls, steps, started, io, order>>

\* a client calls image.contains(x, y) and keeps the result
ApiContains(w) ==
    /\ th[w].pc = "api"
    /\ CallsMade(Clients) < MaxCalls
    /\ \E x \in ArgsX, y \in ArgsY :
         th' = [th EXCEPT ![w].hx = x, ![w].hy = y,
                          ![w].res = contains(x, y, cfg.width, cfg.height),
                          ![w].calls = @ + 1,
                          ![w].pc = "got"]
    /\ UNCHANGED <<cfg, data, lock, mpc, submitted, resIdx, raster,
                   toImageCalls, issued, steps, started, io, order>>

\* the client has used the result of contains and goes on
ApiNext(w) ==
    /\ th[w].pc = "got"
    /\ th' = [th EXCEPT ![w] = [Return(@) EXCEPT !.pc = "api"]]
    /\ UNCHANGED <<cfg, data, lock, mpc, submitted, resIdx, raster,
                   toImageCalls, issued, steps, started, io, order>>

ClientStep(w) ==
    \/ ApiAddHit(w)
    \/ ApiContains(w)
    \/ ApiNext(w)
    \/ Acquire(w)
    \/ Contains(w)
    \/ MixLoad(w)
    \/ MixStore(w)
    \/ HitLoad(w)
    \/ HitStore(w)
    \/ Release(w)

NextApi == \E w \in Clients : ClientStep(w)

SpecApi == InitApi /\ [][NextApi]_vars

\* A caller of add_hit on an image of more than one row.
FrameConfigs ==
    {[c EXCEPT !.height = Height + 1] : c \in ApiConfigs}

InitFrame ==
    /\ cfg \in FrameConfigs
    /\ data = FractalImage(cfg.width, cfg.height)
    /\ lock = 0
    /\ th = [w \in Workers |->
               IF w \in Clients
               THEN [Idle EXCEPT !.pc = "api"]
               ELSE Idle]
    /\ mpc = "api"
    /\ submitted = 0
    /\ resIdx = 0
    /\ raster = <<>>
    /\ toImageCalls = 0
    /\ issued = ZeroCounts(cfg.width, cfg.height)
    /\ steps = 0
    /\ started = [w \in Workers |-> 0]
    /\ io = Console
    /\ order = NoHits(cfg.width, cfg.height)

\* the caller calls image.add_hit(x, y, color)
FrameAddHit(w) ==
    /\ th[w].pc = "api"
    /\ CallsMade(Clients) < FrameCalls
    /\ \E x \in ArgsX, y \in ArgsY, color \in ApiColors :
         /\ th' = [th EXCEPT ![w].hx = x, ![w].hy = y, ![w].color = color,
                             ![w].ret = "api",
                             ![w].calls = @ + 1, ![w].pc = "lock"]
         /\ issued' = IF x \in 0..(cfg.width - 1) /\ y \in 0..(cfg.height - 1)
                      THEN [issued EXCEPT ![y][x] = @ + 1]
                      ELSE issued
    /\ UNCHANGED <<cfg, data, lock, mpc, submitted, resIdx, raster,
                   toImageCalls, steps, started, io, order>>

FrameStep(w) ==
    \/ FrameAddHit(w)
    \/ Acquire(w)
    \/ Contains(w)
    \/ MixLoad(w)
    \/ MixStore(w)
    \/ HitLoad(w)
    \/ HitStore(w)
    \/ Release(w)

NextFrame == \E w \in Clients : FrameStep(w)

SpecFrame == InitFrame /\ [][NextFrame]_vars

\* ------------------------------------------------ get_valid_input, user_input
\* A line typed by the operator is a sequence of one-character strings.
Digits == <<"0", "1", "2", "3", "4", "5", "6", "7", "8", "9">>

IsDigit(c) == \E d \in 1..10 : Digits[d] = c

DigitValue(c) == (CHOOSE d \in 1..10 : Digits[d] = c) - 1

RECURSIVE lstrip(_)
lstrip(s) == IF s # <<>> /\ Head(s) = " " THEN lstrip(Tail(s)) ELSE s

RECURSIVE rstrip(_)
rstrip(s) ==
    IF s # <<>> /\ s[Len(s)] = " " THEN rstrip(SubSeq(s, 1, Len(s) - 1))
    ELSE s

\* str.strip()
strip(s) == rstrip(lstrip(s))

RECURSIVE digits_value(_, _)
digits_value(s, acc) ==
    IF s = <<>> THEN acc
    ELSE digits_value(Tail(s), 10 * acc + DigitValue(Head(s)))

\* the sign and the digits of the literal that int() reads from a string:
\* surrounding whitespace is dropped, one sign is optional
int_body(s) ==
    LET t == strip(s)
    IN  IF t # <<>> /\ Head(t) \in {"+", "-"} THEN Tail(t) ELSE t

\* int(s) raises ValueError unless the body is one or more digits
int_raises(s) ==
    LET body == int_body(s)
    IN  body = <<>> \/ \E i \in 1..Len(body) : ~IsDigit(body[i])

\* the value of int(s) when it does not raise
int(s) ==
    LET t == strip(s)
        v == digits_value(int_body(s), 0)
    IN  IF t # <<>> /\ Head(t) = "-" THEN -v ELSE v

\* str.lower() on the letters the model types
lower(s) == [i \in 1..Len(s) |-> IF s[i] = "Y" THEN "y" ELSE s[i]]

RECURSIVE split(_, _)
\* str.split(sep): the pieces between the separators, always at least one
split(s, sep) ==
    IF \A i \in 1..Len(s) : s[i] # sep THEN <<s>>
    ELSE LET k == CHOOSE i \in 1..Len(s) :
                      s[i] = sep /\ \A j \in 1..(i - 1) : s[j] # sep
         IN  <<SubSeq(s, 1, k - 1)>> \o split(SubSeq(s, k + 1, Len(s)), sep)

\* TRANSFORMATIONS as the list user_input indexes
Catalog ==
    <<"spherical", "sinusoidal", "swirl", "linear", "diamond", "fish">>

\* lines the operator types at a prompt for a number
NumberEntries ==
    {<<"2">>, <<" ", "1", " ">>, <<"0">>, <<"-", "1">>, <<>>, <<"a">>,
     <<"1", ".", "5">>}

\* lines the operator types at the prompt for the transformations
TransformEntries ==
    {<<"0", ",", "3">>, <<" ", "3", " ">>, <<"5", ",", " ", "5">>, <<>>,
     <<"6">>, <<"-", "1">>, <<"0", ",", "x">>, <<"1", ",", ",", "2">>,
     <<"0", ",", "6">>}

\* lines the operator types at the y/n prompt
AnswerEntries == {<<"y">>, <<"Y">>, <<"n">>, <<>>, <<"y", "e", "s">>}

\* the numeric prompts of user_input, in order, with the local each one sets
NumberFields ==
    [in_width |-> "width", in_height |-> "height", in_samples |-> "samples",
     in_iter |-> "iter_per_sample", in_threads |-> "num_threads"]

AfterField ==
    [in_width |-> "in_height", in_height |-> "in_samples",
     in_samples |-> "in_iter", in_iter |-> "in_transforms",
     in_threads |-> "returned"]

\* the locals of user_input before any of them is assigned
Unset ==
    [width |-> 0, height |-> 0, samples |-> 0, iter_per_sample |-> 0,
     transformations |-> <<>>, use_multithreading |-> FALSE,
     num_threads |-> 0, symmetry |-> 1]

InitInput ==
    /\ cfg = Unset
    /\ data = <<>>
    /\ lock = 0
    /\ th = [w \in Workers |-> Idle]
    /\ mpc = "in_width"
    /\ submitted = 0
    /\ resIdx = 0
    /\ raster = <<>>
    /\ toImageCalls = 0
    /\ issued = <<>>
    /\ steps = 0
    /\ started = [w \in Workers |-> 0]
    /\ io = Console
    /\ order = <<>>

\* variant: the comparison with min_value is off by one
below_min_off_by_one(v, min_value) == v < min_value - 1

\* min_value is not None and user_input < min_value
below_min(v, min_value) == v < min_value

\* one reading of the operator's line
Read(entry, rejected) ==
    [prompts |-> io.prompts + 1,
     errors |-> io.errors + (IF rejected THEN 1 ELSE 0),
     last |-> entry]

\* one turn of the loop of get_valid_input(prompt, int, min_value=1)
GetValidInput ==
    /\ mpc \in DOMAIN NumberFields
    /\ \E entry \in NumberEntries :
         LET rejected == int_raises(entry) \/ below_min(int(entry), 1)
         IN  /\ rejected => io.errors < MaxErrors
             /\ io' = Read(entry, rejected)
             /\ IF rejected
                THEN UNCHANGED <<cfg, mpc>>
                ELSE /\ cfg' = [cfg EXCEPT ![NumberFields[mpc]] = int(entry)]
                     /\ mpc' = AfterField[mpc]
    /\ UNCHANGED <<data, lock, th, submitted, resIdx, raster, toImageCalls,
                   issued, steps, started, order>>

\* all(0 <= x < len(TRANSFORMATIONS) for x in selected_transforms)
indices_ok(selected_transforms) ==
    \A i \in 1..Len(selected_transforms) :
        0 <= selected_transforms[i] /\ selected_transforms[i] < Len(Catalog)

\* one turn of the loop that reads the transformation numbers, then
\* transformations = [TRANSFORMATIONS[i] for i in selected_transforms]
SelectTransforms ==
    /\ mpc = "in_transforms"
    /\ \E entry \in TransformEntries :
         LET pieces == split(entry, ",")
             raises == \E i \in 1..Len(pieces) : int_raises(strip(pieces[i]))
             selected_transforms ==
                 [i \in 1..Len(pieces) |-> int(strip(pieces[i]))]
             rejected == raises \/ ~indices_ok(selected_transforms)
         IN  /\ rejected => io.errors < MaxErrors
             /\ io' = Read(entry, rejected)
             /\ IF rejected
                THEN UNCHANGED <<cfg, mpc>>
                ELSE /\ cfg' = [cfg EXCEPT !.transformations =
                                  [i \in 1..Len(selected_transforms) |->
                                      Catalog[selected_transforms[i] + 1]]]
                     /\ mpc' = "in_multi"
    /\ UNCHANGED <<data, lock, th, submitted, resIdx, raster, toImageCalls,
                   issued, steps, started, order>>

\* use_multithreading = input(...).lower() == "y"; num_threads = 1; without
\* multithreading user_input returns here
AskMultithreading ==
    /\ mpc = "in_multi"
    /\ \E entry \in AnswerEntries :
         LET use_multithreading == lower(entry) = <<"y">>
         IN  /\ io' = Read(entry, FALSE)
             /\ cfg' = [cfg EXCEPT !.use_multithreading = use_multithreading,
                                   !.num_threads = 1]
             /\ mpc' = IF use_multithreading THEN "in_threads" ELSE "returned"
    /\ UNCHANGED <<data, lock, th, submitted, resIdx, raster, toImageCalls,
                   issued, steps, started, order>>

NextInput ==
    \/ GetValidInput
    \/ SelectTransforms
    \/ AskMultithreading

SpecInput == InitInput /\ [][NextInput]_vars

\* ------------------------------------------------- the engine on floats
\* A float of the program is sign * (1 + frac / 2^52) * 2^exp, frac given as
\* <<high 26 bits, low 26 bits>>; zero has sign 0.  The operations below are
\* those of IEEE doubles on zero and on powers of two, where they are exact.
Zero == [sign |-> 0, exp |-> 0, frac |-> <<0, 0>>]

Pow2(sign, exp) == [sign |-> sign, exp |-> exp, frac |-> <<0, 0>>]

\* exponent of the largest double, and of the smallest denormal
MaxExp == 1023

MinExp == -1074

Origin == [x |-> Zero, y |-> Zero]

\* v ** 2 raises OverflowError when |v| >= 2^512, whatever the fraction
square_raises(v) == v.sign # 0 /\ 2 * v.exp > MaxExp

\* v ** 2 for zero or a power of two: below the smallest denormal it is 0.0
square(v) ==
    IF v.sign = 0 \/ 2 * v.exp < MinExp THEN Zero ELSE Pow2(1, 2 * v.exp)

\* a + b for two squares of which one is zero or both are equal
add(a, b) ==
    IF a.sign = 0 THEN b
    ELSE IF b.sign = 0 THEN a
    ELSE Pow2(1, a.exp + 1)

\* a / b for a zero or a power of two, b a power of two
div(a, b) == IF a.sign = 0 THEN Zero ELSE Pow2(a.sign, a.exp - b.exp)

\* points on which spherical computes without rounding
FloatExact(p) ==
    /\ p.x.frac = <<0, 0>> /\ p.y.frac = <<0, 0>>
    /\ (p.x.sign # 0 /\ p.y.sign # 0) => p.x.exp = p.y.exp

\* r2 = point.x ** 2 + point.y ** 2 raises OverflowError
spherical_raises(p) == square_raises(p.x) \/ square_raises(p.y)

\* spherical when the squares do not overflow
spherical_float(p) ==
    LET r2 == add(square(p.x), square(p.y))
    IN  IF r2 = Zero THEN Origin
        ELSE [x |-> div(p.x, r2), y |-> div(p.y, r2)]

\* Point(abs(point.x), abs(point.y))
diamond(p) ==
    [x |-> [p.x EXCEPT !.sign = IF @ = 0 THEN 0 ELSE 1],
     y |-> [p.y EXCEPT !.sign = IF @ = 0 THEN 0 ELSE 1]]

\* the transformations computed on floats
FloatCatalog == {"spherical", "linear", "diamond"}

transform_raises(t, p) == t = "spherical" /\ spherical_raises(p)

ApplyFloat(t, p) ==
    CASE t = "spherical" -> spherical_float(p)
      [] t = "linear" -> linear(p)
      [] t = "diamond" -> diamond(p)

\* largest exponent of a float held as half units
GridExp == 20

\* a float taking part in map_to_pixel, in half units: a value of at most
\* 2^-54 vanishes in point.x - rect.x; a value beyond the grid is kept at
\* 2^28 half units, which like the value itself maps outside every image
HalfUnits(v) ==
    IF v.sign = 0 \/ v.exp <= -54 THEN 0
    ELSE IF v.exp > GridExp THEN v.sign * 2^28
    ELSE v.sign * 2^(v.exp + 1)

\* map_to_pixel on a float point; int() of a finite float does not raise
map_to_pixel_float(rect, p, width, height) ==
    map_to_pixel(rect, [x |-> HalfUnits(p.x), y |-> HalfUnits(p.y)],
                 width, height)

\* the float -0x1.775c8a20c65e5p+522
Reached == [sign |-> -1, exp |-> 522, frac |-> <<31289896, 34366949>>]

\* points at the head of an iteration of generate_fractal: values of
\* random_point_in_rect, the origin among them, and the point left by
\* spherical after a run of spherical, swirl and fish has driven the point
\* to (-0x1.5d3050c3p-524, -0x1.5d3050c3p-524)
EnginePoints ==
    {[x |-> Pow2(-1, -1), y |-> Zero], [x |-> Pow2(1, -1), y |-> Zero],
     [x |-> Pow2(1, -1), y |-> Pow2(1, -1)], Origin,
     [x |-> Reached, y |-> Reached]}

EngineConfigs ==
    {c \in [width : {Width}, height : {Height}, samples : {1},
            iter_per_sample : 1..MaxWork,
            transformations : SUBSET FloatCatalog \ {{}},
            use_multithreading : {FALSE}, num_threads : {1},
            symmetry : {1}] : TRUE}

\* generate_fractal inside its last sample, the point about to be iterated
InitEngine ==
    /\ cfg \in EngineConfigs
    /\ data = FractalImage(cfg.width, cfg.height)
    /\ lock = 0
    /\ \E p \in {q \in EnginePoints : FloatExact(q) \/ spherical_raises(q)},
          n \in 1..cfg.iter_per_sample :
         th = [w \in Workers |->
                 IF w = 1
                 THEN [Idle EXCEPT !.pc = "f_iter", !.point = p, !.iters = n]
                 ELSE Idle]
    /\ mpc = "single"
    /\ submitted = 0
    /\ resIdx = 0
    /\ raster = <<>>
    /\ toImageCalls = 0
    /\ issued = ZeroCounts(cfg.width, cfg.height)
    /\ steps = 0
    /\ started = [w \in Workers |-> IF w = 1 THEN 1 ELSE 0]
    /\ io = Console
    /\ order = NoHits(cfg.width, cfg.height)

\* transform = random.choice(transformations); point = transform(point):
\* an exception of the transform leaves generate_fractal
IterateFloat(w) ==
    /\ th[w].pc = "f_iter"
    /\ IF th[w].iters > 0
       THEN \E t \in cfg.transformations :
                 IF transform_raises(t, th[w].point)
                 THEN th' = [th EXCEPT ![w].exc = TRUE, ![w].pc = "raised"]
                 ELSE th' = [th EXCEPT
                               ![w].point = ApplyFloat(t, th[w].point),
                               ![w].iters = @ - 1,
                               ![w].pc = "f_map"]
       ELSE th' = [th EXCEPT ![w].pc = "done"]
    /\ UNCHANGED <<cfg, data, lock, mpc, submitted, resIdx, raster,
                   toImageCalls, issued, steps, started, io, order>>

\* the symmetry loop for symmetry = 1: the point itself, map_to_pixel, a
\* colour and add_hit
MapFloat(w) ==
    /\ th[w].pc = "f_map"
    /\ LET pixel_coords ==
               map_to_pixel_float(World, th[w].point, cfg.width, cfg.height)
       IN  /\ steps' = steps + 1
           /\ IF pixel_coords # None
              THEN /\ \E color \in random_color :
                        th' = [th EXCEPT ![w].hx = pixel_coords[1],
                                         ![w].hy = pixel_coords[2],
                                         ![w].color = color,
                                         ![w].ret = "f_iter",
                                         ![w].pc = "lock"]
                   /\ issued' = [issued EXCEPT
                          ![pixel_coords[2]][pixel_coords[1]] = @ + 1]
              ELSE /\ th' = [th EXCEPT ![w].pc = "f_iter"]
                   /\ issued' = issued
    /\ UNCHANGED <<cfg, data, lock, mpc, submitted, resIdx, raster,
                   toImageCalls, started, io, order>>

EngineStep(w) ==
    \/ IterateFloat(w)
    \/ MapFloat(w)
    \/ Acquire(w)
    \/ Contains(w)
    \/ MixLoad(w)
    \/ MixStore(w)
    \/ HitLoad(w)
    \/ HitStore(w)
    \/ Release(w)

NextEngine == EngineStep(1)

SpecEngine == InitEngine /\ [][NextEngine]_vars

\* ------------------------------------------------------------- vocabulary
Coords == (0..(cfg.width - 1)) \X (0..(cfg.height - 1))

InBounds(x, y) == x \in 0..(cfg.width - 1) /\ y \in 0..(cfg.height - 1)

HitCount(c) == data[c[2]][c[1]].hit_count

RECURSIVE TotalHits(_)
TotalHits(S) ==
    IF S = {} THEN 0
    ELSE LET c == CHOOSE v \in S : TRUE
         IN  HitCount(c) + TotalHits(S \ {c})

RECURSIVE TotalIssued(_)
TotalIssued(S) ==
    IF S = {} THEN 0
    ELSE LET c == CHOOSE v \in S : TRUE
         IN  issued[c[2]][c[1]] + TotalIssued(S \ {c})

RECURSIVE TotalStarted(_)
TotalStarted(S) ==
    IF S = {} THEN 0
    ELSE LET w == CHOOSE v \in S : TRUE
         IN  started[w] + TotalStarted(S \ {w})

\* positions inside add_hit, and those inside its with block
HitPcs ==
    {"lock", "contains", "mix_r", "store_r", "mix_g", "store_g", "mix_b",
     "store_b", "inc", "store_hc", "unlock"}

CriticalPcs == HitPcs \ {"lock"}

\* positions of main after the sampling call has returned or raised
AfterSampling == {"save", "to_image", "done", "aborted"}

NotRunning(w) == th[w].pc \in {"idle", "done", "raised"}

\* add_hit calls on pixel c that have been issued and not yet counted
InFlight(c) ==
    Cardinality({w \in Workers :
        /\ th[w].pc \in HitPcs \ {"unlock"}
        /\ th[w].hx = c[1] /\ th[w].hy = c[2]})

ChannelsInRange ==
    \A c \in Coords :
        LET pixel == data[c[2]][c[1]]
        IN  pixel.r \in 0..255 /\ pixel.g \in 0..255 /\ pixel.b \in 0..255

\* ------------------------------------------------------------------ claims
\* C1: no lost updates.  Once every worker has finished, each pixel's
\* hit_count equals the number of add_hit calls issued for that pixel, and
\* the sum of the hit_counts equals the number of in-bounds add_hit calls.
C1_NoLostUpdates ==
    mpc \in AfterSampling =>
        /\ \A c \in Coords : HitCount(c) = issued[c[2]][c[1]]
        /\ TotalHits(Coords) = TotalIssued(Coords)

\* two workers, one sample and one iteration each, both hits on one pixel
C1_Witness ==
    /\ mpc = "done"
    /\ cfg.use_multithreading /\ cfg.num_threads = 2
    /\ cfg.samples = 2 /\ cfg.iter_per_sample = 1
    /\ \E c \in Coords : HitCount(c) = 2

\* C2: mutual exclusion.  At most one worker is inside the with block of
\* add_hit (bounds check and read-modify-write of a pixel), and a worker
\* inside it holds the lock.
C2_MutualExclusion ==
    /\ Cardinality({w \in Workers : th[w].pc \in CriticalPcs}) <= 1
    /\ \A w \in Workers : th[w].pc \in CriticalPcs => lock = w

\* one worker is between two stores of mix_color while another waits
C2_Witness ==
    \E v, w \in Workers :
        /\ v # w
        /\ th[v].pc = "mix_g"
        /\ th[w].pc = "lock"

\* C3: join before output.  to_image is called at most once, exactly once
\* when main ends normally, and only when no worker is running; main is
\* past the sampling call only when no worker is running, so no add_hit
\* happens during or after the raster read.
C3_JoinBeforeOutput ==
    /\ toImageCalls <= 1
    /\ (mpc \in {"to_image", "done"}) <=> (toImageCalls = 1)
    /\ mpc \in AfterSampling => \A w \in Workers : NotRunning(w)
    /\ toImageCalls >= 1 => \A w \in Workers : NotRunning(w)

\* the raster read is under way after two workers have registered hits
C3_Witness ==
    /\ mpc = "to_image"
    /\ Len(raster) = 1
    /\ cfg.use_multithreading /\ cfg.num_threads = 2
    /\ th[1].pc = "done" /\ th[2].pc = "done"
    /\ TotalHits(Coords) >= 2

\* C4: work split.  Exactly num_threads invocations are launched, each with
\* samples // num_threads samples; when all have completed the number of
\* samples executed is N * (S // N) = S - (S mod N), fewer than N short of S.
C4_WorkSplit ==
    cfg.use_multithreading =>
        LET n == cfg.num_threads
            q == cfg.samples \div cfg.num_threads
        IN  /\ submitted <= n
            /\ \A w \in Workers :
                 IF w <= submitted
                 THEN started[w] + th[w].samples = q
                 ELSE th[w].pc = "idle" /\ started[w] = 0
            /\ mpc \notin {"start", "submit"} => submitted = n
            /\ mpc \in {"save", "to_image", "done"} =>
                 /\ TotalStarted(Workers) = n * q
                 /\ n * q = cfg.samples - (cfg.samples % n)
                 /\ cfg.samples - TotalStarted(Workers) < n

\* three samples over two workers: one sample each, one dropped
C4_Witness ==
    /\ mpc = "done"
    /\ cfg.use_multithreading /\ cfg.num_threads = 2 /\ cfg.samples = 3
    /\ started[1] = 1 /\ started[2] = 1

\* C5: add_hit at an out-of-bounds coordinate is a silent no-op.  Every
\* step of an add_hit call whose (x, y) lies outside the image leaves all
\* pixels unchanged and raises nothing, and the lock is free of the caller
\* when the call has returned.
C5_OutOfBoundsNoOp ==
    [][\A w \in Clients :
          (th[w] # th'[w] /\ th[w].pc \in HitPcs
                /\ ~InBounds(th[w].hx, th[w].hy)) =>
             /\ data' = data
             /\ ~th'[w].exc
             /\ th'[w].pc # "raised"
             /\ (th'[w].pc \notin HitPcs => lock' # w)]_vars

\* a call with a negative x is about to return while the buffer holds a hit
C5_Witness ==
    \E w \in Clients :
        /\ th[w].pc = "unlock"
        /\ th[w].hx = -1
        /\ \E c \in Coords : HitCount(c) >= 1

\* C6: pixel invariant.  Under mix_color calls with channels in 0..255 the
\* channels r, g, b stay in 0..255, and hit_count equals the number of
\* mix_color calls completed on the pixel: the calls issued less the one in
\* flight, so each call adds exactly 1 and the count never drops.
C6_PixelInvariant ==
    /\ ChannelsInRange
    /\ \A c \in Coords : HitCount(c) + InFlight(c) = issued[c[2]][c[1]]

\* three calls have been mixed into one pixel, the mean strictly inside
C6_Witness ==
    \E c \in Coords :
        /\ HitCount(c) = 3
        /\ data[c[2]][c[1]].r \in 1..254
        /\ data[c[2]][c[1]].g \in 1..254

\* C7: the first hit sets the colour.  When mix_color(c) has run on a pixel
\* whose hit_count was 0, the pixel's (r, g, b) is c and its hit_count is 1.
C7_FirstHitSetsColour ==
    \A w \in Clients :
        (/\ th[w].pc = "unlock"
         /\ InBounds(th[w].hx, th[w].hy)
         /\ issued[th[w].hy][th[w].hx] - InFlight(<<th[w].hx, th[w].hy>>) = 1)
        => LET pixel == data[th[w].hy][th[w].hx]
           IN  /\ <<pixel.r, pixel.g, pixel.b>> = th[w].color
               /\ pixel.hit_count = 1

\* the first call on a pixel has just mixed in a non-zero colour
C7_Witness ==
    \E w \in Clients :
        /\ th[w].pc = "unlock"
        /\ InBounds(th[w].hx, th[w].hy)
        /\ HitCount(<<th[w].hx, th[w].hy>>) = 1
        /\ th[w].color = <<ColorScale, ColorScale, ColorScale>>

\* C8: contains(x, y) is true exactly when 0 <= x < width and
\* 0 <= y < height, for negative arguments and arguments at or beyond the
\* size as well, and the call leaves the buffer as it was.
C8_ContainsIff ==
    [][\A w \in Clients :
          (th[w].pc = "api" /\ th'[w].pc = "got") =>
             /\ th'[w].res = (/\ 0 <= th'[w].hx /\ th'[w].hx < cfg.width
                              /\ 0 <= th'[w].hy /\ th'[w].hy < cfg.height)
             /\ data' = data]_vars

\* contains has answered False for x = width, y = -1 on a buffer with a hit
C8_Witness ==
    \E w \in Clients :
        /\ th[w].pc = "got"
        /\ th[w].hx = cfg.width /\ th[w].hy = -1
        /\ ~th[w].res
        /\ \E c \in Coords : HitCount(c) >= 1

\* C9: hit budget.  The sum of the hit_counts never exceeds the number of
\* (sample, iteration, symmetry copy) steps executed so far, which never
\* exceeds samples * iter_per_sample * symmetry, and r, g, b stay in 0..255.
C9_HitBudget ==
    /\ TotalHits(Coords) <= steps
    /\ steps <= cfg.samples * cfg.iter_per_sample * cfg.symmetry
    /\ ChannelsInRange

\* a finished run of three steps of which some, not all, registered a hit
C9_Witness ==
    /\ mpc = "done"
    /\ steps = 3
    /\ steps = cfg.samples * cfg.iter_per_sample * cfg.symmetry
    /\ TotalHits(Coords) \in 1..2
    /\ \E c \in Coords : data[c[2]][c[1]].r > 0

\* C10: a worker fault aborts the run.  Once a worker has raised, main is
\* never at or past save_image, no raster has been read, and the worker's
\* remaining samples stay unexecuted; main aborts only because of a fault.
C10_FaultAborts ==
    /\ (\E w \in Workers : th[w].pc = "raised") =>
          /\ mpc \in {"submit", "result", "exit_raise", "single", "aborted"}
          /\ toImageCalls = 0
          /\ raster = <<>>
    /\ \A w \in Workers :
          th[w].pc = "raised" =>
             started[w] + th[w].samples =
                IF cfg.use_multithreading
                THEN cfg.samples \div cfg.num_threads ELSE cfg.samples
    /\ mpc = "aborted" => \E w \in Workers : th[w].pc = "raised"

\* worker 1 raised, worker 2 completed and left hits in the buffer
C10_Witness ==
    /\ mpc = "aborted"
    /\ cfg.use_multithreading /\ cfg.num_threads = 2
    /\ th[1].pc = "raised" /\ th[2].pc = "done"
    /\ TotalHits(Coords) >= 1

\* positions of user_input at which the named local has been assigned
AssignedAt ==
    [width |-> {"in_height", "in_samples", "in_iter", "in_transforms",
                "in_multi", "in_threads", "returned"},
     height |-> {"in_samples", "in_iter", "in_transforms", "in_multi",
                 "in_threads", "returned"},
     samples |-> {"in_iter", "in_transforms", "in_multi", "in_threads",
                  "returned"},
     iter_per_sample |-> {"in_transforms", "in_multi", "in_threads",
                          "returned"},
     num_threads |-> {"in_threads", "returned"}]

\* entries that are not a number, or a number below 1
BadNumbers == {<<>>, <<"a">>, <<"1", ".", "5">>, <<"0">>, <<"-", "1">>}

\* entries that are empty, not numbers, or name an index outside 0..5
BadSelections ==
    {<<>>, <<"6">>, <<"-", "1">>, <<"0", ",", "x">>, <<"1", ",", ",", "2">>,
     <<"0", ",", "6">>}

\* C11: invalid configuration never reaches the core.  Every non-numeric or
\* out-of-range entry leaves user_input at the same prompt with the fields
\* accepted so far unchanged; every accepted number is >= 1; and the
\* configuration returned has width, height, samples, iter_per_sample and
\* num_threads >= 1 and a non-empty list of transformations of the catalog.
C11_InputValidated ==
    /\ [](/\ \A f \in DOMAIN AssignedAt :
                mpc \in AssignedAt[f] => cfg[f] >= 1
          /\ mpc \in {"in_multi", "in_threads", "returned"} =>
                /\ Len(cfg.transformations) >= 1
                /\ \A i \in 1..Len(cfg.transformations) :
                     \E k \in 0..5 : cfg.transformations[i] = Catalog[k + 1])
    /\ [][(/\ io'.prompts = io.prompts + 1
           /\ \/ mpc \in DOMAIN NumberFields /\ io'.last \in BadNumbers
              \/ mpc = "in_transforms" /\ io'.last \in BadSelections)
          => (mpc' = mpc /\ cfg' = cfg /\ io'.errors = io.errors + 1)]_vars

\* user_input has returned a multithreaded configuration with two
\* transformations after two rejected entries
C11_Witness ==
    /\ mpc = "returned"
    /\ io.errors = 2
    /\ cfg.use_multithreading /\ cfg.num_threads = 2
    /\ cfg.transformations = <<"spherical", "linear">>

\* C12: no operation of the sampling engine fails.  No transform raises on
\* a point the iteration reaches, spherical maps the origin to the origin,
\* linear returns its input, and map_to_pixel yields a pixel of the image or
\* no hit.
C12_NoEngineFailure ==
    /\ \A w \in Workers : th[w].pc # "raised" /\ ~th[w].exc
    /\ spherical_float(Origin) = Origin
    /\ \A p \in EnginePoints : linear(p) = p
    /\ \A w \in Workers : th[w].pc = "lock" => InBounds(th[w].hx, th[w].hy)

\* the world rectangle: rect.x <= p.x < rect.x + rect.width, y likewise
InWorld(p) ==
    /\ World.x <= p.x /\ p.x < World.x + World.width
    /\ World.y <= p.y /\ p.y < World.y + World.height

\* C13: coordinate mapping.  Whenever a hit is registered for a point p, its
\* pixel is (floor((p.x - world.x) / world.width * width), floor((p.y -
\* world.y) / world.height * height)) and p lies inside the world rectangle.
C13_FloorMapping ==
    \A w \in Workers :
        (th[w].pc = "lock" /\ th[w].ret = "sym") =>
            LET p == rotated_point(th[w].point, th[w].s, cfg.symmetry)
            IN  /\ th[w].hx = ((p.x - World.x) * cfg.width) \div World.width
                /\ th[w].hy = ((p.y - World.y) * cfg.height) \div World.height
                /\ InWorld(p)

\* iterations of the current sample already transformed by a worker that runs
\* linear only
IterationsDone(w) ==
    IF started[w] = 0 THEN 0
    ELSE (started[w] - 1) * cfg.iter_per_sample
         + (cfg.iter_per_sample - th[w].iters)

\* C14: a hit is registered after every iteration.  Each iteration feeds the
\* point of the one before into a transformation; each symmetry copy whose
\* pixel is inside the image issues exactly one add_hit for that pixel and
\* any other copy none; and a single-threaded run of linear alone has
\* issued one hit per iteration done so far, so that one sample ends with
\* iter_per_sample hits on a single pixel.
C14_HitEveryIteration ==
    /\ []((cfg.transformations = {"linear"} /\ ~cfg.use_multithreading) =>
            /\ th[1].pc = "iter" =>
                  TotalIssued(Coords) = IterationsDone(1)
            /\ (mpc = "done" /\ cfg.samples = 1) =>
                  \E c \in Coords :
                      /\ HitCount(c) = cfg.iter_per_sample
                      /\ \A d \in Coords \ {c} : HitCount(d) = 0)
    /\ [][\A w \in Workers :
            /\ (th[w].pc = "iter" /\ th[w].iters > 0 /\ th'[w] # th[w]
                    /\ th'[w].pc # "raised") =>
                  /\ th'[w].pc = "sym"
                  /\ \E t \in cfg.transformations :
                         th'[w].point = Apply(t, th[w].point)
            /\ th[w].pc \notin {"sample", "iter", "idle"} =>
                  th'[w].point = th[w].point
            /\ (th[w].pc = "sym" /\ th[w].s < cfg.symmetry
                    /\ th'[w] # th[w]) =>
                  LET px == map_to_pixel(World,
                                rotated_point(th[w].point, th[w].s,
                                              cfg.symmetry),
                                cfg.width, cfg.height)
                  IN  IF px # None
                      THEN /\ th'[w].pc = "lock"
                           /\ <<th'[w].hx, th'[w].hy>> = px
                           /\ issued' = [issued EXCEPT ![px[2]][px[1]] = @ + 1]
                      ELSE /\ th'[w].pc = "sym"
                           /\ issued' = issued]_vars

\* one sample of three iterations of linear has put three hits on one pixel
C14_Witness ==
    /\ mpc = "done"
    /\ cfg.transformations = {"linear"} /\ ~cfg.use_multithreading
    /\ cfg.samples = 1 /\ cfg.iter_per_sample = 3
    /\ \E c \in Coords : HitCount(c) = 3

\* a worker that has been started and has not ended
Unfinished(w) == ~NotRunning(w)

\* C15: deadlock freedom and termination under fair scheduling.  A worker
\* that requests the lock eventually holds it, a held lock is eventually
\* released, every started worker eventually finishes its samples, the
\* sampling call eventually returns to main, and in no state are all
\* unfinished workers blocked.
C15_Termination ==
    /\ \A w \in Workers : (th[w].pc = "lock") ~> (lock = w)
    /\ \A w \in Workers : (lock = w) ~> (lock # w)
    /\ \A w \in Workers : Unfinished(w) ~> (th[w].pc = "done")
    /\ (mpc \in {"start", "submit", "result", "single"}) ~> (mpc = "save")
    /\ []((\E w \in Workers : Unfinished(w)) =>
             \E w \in Workers :
                 Unfinished(w) /\ (th[w].pc = "lock" => lock = 0))

\* the point p turned about the origin by s of the symmetry's equal angles,
\* in exact arithmetic
ExactRotation(p, s, symmetry) ==
    LET t == theta(s, symmetry)
    IN  CASE t = 0 -> p
          [] t = 1 -> [x |-> -p.y, y |-> p.x]
          [] t = 2 -> [x |-> -p.x, y |-> -p.y]
          [] t = 3 -> [x |-> p.y, y |-> -p.x]

ExactPixel(p, s) ==
    map_to_pixel(World, ExactRotation(p, s, cfg.symmetry),
                 cfg.width, cfg.height)

\* the point and all its rotations map into the image
AllInBounds(p) ==
    \A s \in 0..(cfg.symmetry - 1) : ExactPixel(p, s) # None

\* C16: with symmetry n an iteration goes through the copies s = 0..n-1 of
\* its point, copy s being the point rotated by s times the n-th part of a
\* full turn and copy 0 the point itself; with symmetry 4, when the point
\* and its three rotations map into the image, every copy registers a hit,
\* at the pixel of its rotation.
C16_Symmetry ==
    /\ [](\A w \in Workers :
            /\ th[w].pc = "sym" => th[w].s \in 0..cfg.symmetry
            /\ (th[w].pc = "lock" /\ th[w].ret = "sym" /\ cfg.symmetry = 4
                  /\ AllInBounds(th[w].point))
               => <<th[w].hx, th[w].hy>> = ExactPixel(th[w].point, th[w].s))
    /\ [][\A w \in Workers :
            /\ (th[w].pc = "iter" /\ th'[w].pc = "sym") => th'[w].s = 0
            /\ (th[w].pc = "sym" /\ th'[w].pc = "iter")
               => th[w].s = cfg.symmetry
            /\ (th[w].pc = "sym" /\ th[w].s < cfg.symmetry
                  /\ th'[w] # th[w])
               => /\ th'[w].point = th[w].point
                  /\ th[w].s = 0 =>
                        rotated_point(th[w].point, 0, cfg.symmetry) =
                            [x |-> th[w].point.x, y |-> th[w].point.y,
                             rx |-> 0, ry |-> 0]
                  /\ (cfg.symmetry = 4 /\ AllInBounds(th[w].point))
                     => th'[w].pc = "lock"
            /\ (th[w].pc = "unlock" /\ th[w].ret = "sym"
                  /\ th'[w].pc = "sym")
               => th'[w].s = th[w].s + 1]_vars

\* the pixel after mix_color has been called with the colours one by one
RECURSIVE Mixed(_)
Mixed(colours) ==
    IF colours = <<>> THEN Pixel
    ELSE mix_color(Mixed(SubSeq(colours, 1, Len(colours) - 1)),
                   colours[Len(colours)], 1)

\* the orders in which the same hits can be mixed
Interleavings(hits) ==
    {[i \in 1..Len(hits) |-> hits[f[i]]] :
        f \in {g \in [1..Len(hits) -> 1..Len(hits)] :
                  \A i, j \in 1..Len(hits) : g[i] = g[j] => i = j}}

Colour(pixel) == <<pixel.r, pixel.g, pixel.b>>

\* C17: whenever no add_hit is in progress a pixel is what mix_color makes
\* of its hits in the order the workers got the lock, so its colour is
\* decided by that order, while its hit_count is the number of its hits
\* under every order of the same hits.
C17_OrderDecidesColour ==
    lock = 0 =>
        \A c \in Coords :
            LET hits == order[c[2]][c[1]]
            IN  /\ data[c[2]][c[1]] = Mixed(hits)
                /\ \A q \in Interleavings(hits) :
                       Mixed(q).hit_count = HitCount(c)
                /\ HitCount(c) = Len(hits)

\* the run of two workers is over, the two hits of each are on one pixel,
\* and the same hits in another order would have ended with another colour
C17_Witness ==
    /\ mpc = "done"
    /\ cfg.num_threads = 2 /\ started[1] = 1 /\ started[2] = 1
    /\ \E c \in Coords :
         LET hits == order[c[2]][c[1]]
         IN  /\ Len(hits) = 4
             /\ \E q \in Interleavings(hits) :
                  Colour(Mixed(q)) # Colour(data[c[2]][c[1]])

\* every step of an in-bounds add_hit(x, y, color) leaves all pixels other
\* than the one at row y, column x as they were, and the width, the height
\* and the shape of the buffer too
FrameKept ==
    \A w \in Clients :
        (th[w] # th'[w] /\ th[w].pc \in HitPcs
              /\ InBounds(th[w].hx, th[w].hy)) =>
           /\ \A c \in Coords :
                 c # <<th[w].hx, th[w].hy>>
                 => data'[c[2]][c[1]] = data[c[2]][c[1]]
           /\ cfg'.width = cfg.width /\ cfg'.height = cfg.height
           /\ DOMAIN data' = DOMAIN data
           /\ \A y \in DOMAIN data : DOMAIN data'[y] = DOMAIN data[y]

\* C18, as stated: every step of an in-bounds add_hit(x, y, color) changes
\* only the pixel at row y, column x, and in every reachable state a pixel
\* with hit_count 0 has colour (0, 0, 0).  The first mix_color on a pixel
\* stores r, g and b before hit_count is incremented, so the second part
\* fails inside that call.
C18_BlackUntilCounted ==
    /\ [](\A c \in Coords :
            HitCount(c) = 0 => Colour(data[c[2]][c[1]]) = <<0, 0, 0>>)
    /\ [][FrameKept]_vars

\* C18: frame of add_hit.  Every step of an in-bounds add_hit(x, y, color)
\* leaves all pixels other than the one at row y, column x as they were,
\* and the width, the height and the shape of the buffer too; so a pixel
\* with hit_count 0 on which no add_hit is between its first store and its
\* increment of hit_count has colour (0, 0, 0).
C18_Frame ==
    /\ [](\A c \in Coords :
            (HitCount(c) = 0 /\ InFlight(c) = 0)
            => Colour(data[c[2]][c[1]]) = <<0, 0, 0>>)
    /\ [][FrameKept]_vars

\* a hit on the pixel of row 1, column 1 is complete, a white hit on the
\* pixel of row 0, column 0 has just been counted, and the two other pixels,
\* one in each row, have never been hit
C18_Witness ==
    \E w \in Clients :
        /\ th[w].pc = "unlock"
        /\ th[w].hx = 0 /\ th[w].hy = 0
        /\ th[w].color = <<ColorScale, ColorScale, ColorScale>>
        /\ Colour(data[0][0]) = <<ColorScale, ColorScale, ColorScale>>
        /\ HitCount(<<1, 1>>) = 1
        /\ Colour(data[1][1]) # <<0, 0, 0>>
        /\ HitCount(<<1, 0>>) = 0 /\ InFlight(<<1, 0>>) = 0
        /\ Colour(data[0][1]) = <<0, 0, 0>>
        /\ HitCount(<<0, 1>>) = 0 /\ InFlight(<<0, 1>>) = 0
        /\ Colour(data[1][0]) = <<0, 0, 0>>

\* the sum of channel i over a sequence of colours
RECURSIVE ChannelSum(_, _)
ChannelSum(colours, i) ==
    IF colours = <<>> THEN 0
    ELSE colours[1][i] + ChannelSum(Tail(colours), i)

\* the values of channel i in a sequence of colours
ChannelValues(colours, i) == {colours[k][i] : k \in 1..Len(colours)}

\* C19: accumulator bound.  After any sequence of mix_color calls of weight
\* 1 on a pixel that started at zero, each channel times hit_count is at
\* most the sum of the values received for it, so the channel is at most
\* their mean, and the channel is at least the smallest value received.
C19_AccumulatorBound ==
    lock = 0 =>
        \A c \in Coords :
            LET pixel == data[c[2]][c[1]]
                received == order[c[2]][c[1]]
            IN  \A i \in 1..3 :
                    /\ ChannelOf(pixel, i) * pixel.hit_count
                           <= ChannelSum(received, i)
                    /\ \A v \in ChannelValues(received, i) :
                           (\A u \in ChannelValues(received, i) : v <= u)
                           => v <= ChannelOf(pixel, i)

\* four hits are mixed into one pixel and truncation has left its green
\* channel strictly below the mean and above the smallest value received
C19_Witness ==
    /\ lock = 0
    /\ \E c \in Coords :
         LET pixel == data[c[2]][c[1]]
             received == order[c[2]][c[1]]
         IN  /\ pixel.hit_count = 4
             /\ pixel.g * pixel.hit_count < ChannelSum(received, 2)
             /\ \E v \in ChannelValues(received, 2) : v < pixel.g

====
